---- MODULE Spec2Model ----
(***************************************************************************)
(* Model of the three Lambda handlers of cloudcomponents-cdk-constructs    *)
(* that carry decision logic:                                              *)
(*   - cdk-stripe-webhook/src/lambdas/stripe-webhook/index.ts              *)
(*       (custom resource: handleCreate / handleUpdate / handleDelete)     *)
(*   - cdk-lambda-at-edge-pattern/src/lambdas/with-configuration/index.ts  *)
(*       (custom resource: updateLambdaCode)                               *)
(*   - cdk-stripe-webhook/src/lambdas/stripe-event-bus-producer/index.ts   *)
(*       (API Gateway proxy handler)                                       *)
(* Each deployed Lambda function runs exactly one of the three entry       *)
(* points; `handler` records which one this process runs.  Every `await`   *)
(* of the source is one step of the model: the synchronous code between    *)
(* two awaits is atomic (JavaScript runs it to completion).                *)
(***************************************************************************)
EXTENDS Integers, Sequences, FiniteSets, TLC

\* ---- bounds of the model ------------------------------------------------
MaxRequests == 3
MaxPollDelay == 20

\* ---- constants of the program -------------------------------------------
MaxAttempts == 5
MaxNetworkRetries == 5
MaxWaitTime == 60

VARIABLES
    handler,          \* which entry point this process runs
    \* -- stripe-webhook custom resource --
    wpc,              \* position in handleCreate / handleUpdate / handleDelete
    wevent,           \* the lifecycle event being handled
    value,            \* the API key secretKey.getValue() resolved to ("none": not yet)
    pre,              \* Stripe's and the secret store's state when the invocation began
    created,          \* the endpoint object as Stripe's creation response carried it
    data,             \* the object returned by stripe.webhookEndpoints.*
    wresult,          \* what the handler returned (or that it threw)
    endpoints,        \* ids of the webhook endpoints that exist at Stripe
    nextId,           \* the id Stripe gives the next endpoint it creates
    secretStore,      \* the value held by the endpoint secret store (0: none)
    calls,            \* Stripe requests issued by the current invocation
    stored,           \* putSecret calls completed by the current invocation
    issued,           \* physical ids returned by successful creates
    attempts,         \* failed attempts of the SDK call in progress
    rejected,         \* non-retryable error responses the current invocation received
    nreq,             \* lifecycle requests handled so far
    \* -- with-configuration custom resource --
    lpc,              \* position in updateLambdaCode
    levent,           \* RequestType of the lifecycle event
    code,             \* what GetFunction returned as Code ("none": nothing yet)
    responseDetails,  \* the local variable responseDetails
    returned,         \* the value updateLambdaCode returned
    waiter,           \* state of waitUntilFunctionActiveV2
    elapsed,          \* seconds the waiter has slept
    callbackRan,      \* which of .then / .catch has run
    fnVersion,        \* latest published version of the target function
    updateCalls,      \* UpdateFunctionCode requests issued
    \* -- stripe-event-bus-producer --
    ppc,              \* position in the producer handler
    pevent,           \* the API Gateway event being handled
    response,         \* statusCode of the APIGatewayProxyResult returned (0: none yet)
    perror,           \* type of the error the try block threw ("none": none)
    verified,         \* constructEvent accepted the current request
    putCalls,         \* PutEvents requests issued for the current request
    putResult,        \* how the PutEvents request of the current request ended
    bus,              \* detail types published to the event bus
    preq              \* API Gateway requests handled so far

wvars == <<wpc, wevent, value, pre, created, data, wresult, endpoints, nextId, secretStore, calls,
           stored, issued, attempts, rejected, nreq>>
lvars == <<lpc, levent, code, responseDetails, returned, waiter, elapsed,
           callbackRan, fnVersion, updateCalls>>
pvars == <<ppc, pevent, response, perror, verified, putCalls, putResult, bus, preq>>
vars == <<handler, wvars, lvars, pvars>>

\* ==========================================================================
\* stripe-webhook/index.ts
\* ==========================================================================

NoData == [id |-> 0, secret |-> 0]
NoResult == [status |-> "none", physicalResourceId |-> 0, secret |-> 0, error |-> "none"]
NoEvent == [RequestType |-> "none", PhysicalResourceId |-> 0,
            endpointSecretStoreString |-> FALSE, valid |-> FALSE]

\* The lifecycle events CloudFormation can send: Update and Delete carry a
\* physical id a prior Create returned; `valid` says whether Stripe accepts
\* the url / events of the request; endpointSecretStoreString is optional.
WebhookEvents ==
    [RequestType : {"Create"}, PhysicalResourceId : {0},
     endpointSecretStoreString : BOOLEAN, valid : BOOLEAN]
    \cup
    [RequestType : {"Update"}, PhysicalResourceId : issued,
     endpointSecretStoreString : BOOLEAN, valid : BOOLEAN]
    \cup
    [RequestType : {"Delete"}, PhysicalResourceId : issued,
     endpointSecretStoreString : {FALSE}, valid : {TRUE}]

\* customResourceHelper dispatches on RequestType
WebhookInvoke ==
    /\ handler = "webhook"
    /\ wpc \in {"idle", "done"}
    /\ nreq < MaxRequests
    /\ \E ev \in WebhookEvents :
         /\ wevent' = ev
         /\ wpc' = "getValue"
    /\ data' = NoData
    /\ created' = NoData
    /\ wresult' = NoResult
    /\ calls' = {}
    /\ stored' = 0
    /\ attempts' = 0
    /\ rejected' = 0
    /\ nreq' = nreq + 1
    /\ value' = "none"
    /\ pre' = [endpoints |-> endpoints, secretStore |-> secretStore]
    /\ UNCHANGED <<endpoints, nextId, secretStore, issued>>
    /\ UNCHANGED <<handler, lvars, pvars>>

\* an exception leaves the handler: the invocation fails
ThrowSwallowed(err) ==
    /\ wresult' = [status |-> "SUCCESS", physicalResourceId |-> wevent.PhysicalResourceId,
                   secret |-> 0, error |-> "none"]
    /\ wpc' = "done"
Throw(err) ==
    /\ wresult' = [status |-> "FAILED", physicalResourceId |-> 0, secret |-> 0, error |-> err]
    /\ wpc' = "done"

\* const webhookId = event.PhysicalResourceId
WebhookIdWrong(ev) == IF nextId > 1 THEN nextId - 1 ELSE ev.PhysicalResourceId
WebhookId(ev) == ev.PhysicalResourceId

\* if (endpointSecretStoreString && data.secret)
ShouldStoreAlways(ev, d) == d.secret # 0
ShouldStore(ev, d) == ev.endpointSecretStoreString /\ d.secret # 0

\* delete data.secret
RedactNothing(d) == d
Redact(d) == [d EXCEPT !.secret = 0]

\* return { physicalResourceId: data.id, responseData: { ...data } }
ReturnData(d) == [status |-> "SUCCESS", physicalResourceId |-> d.id, secret |-> d.secret, error |-> "none"]

\* `await secretKey.getValue()` rejects: no handler catches it, so the exception
\* leaves the handler before the statements that follow the await
GetValueRejectedIgnored == wpc' = "stripe" /\ UNCHANGED wresult
GetValueRejected == Throw("SecretUnavailable")

\* `await stripe.webhookEndpoints.update(...)` rejects: handleUpdate has no
\* try/catch, so the exception leaves the handler
UpdateRejectedSwallowed(err) ==
    /\ wresult' = [status |-> "SUCCESS", physicalResourceId |-> wevent.PhysicalResourceId,
                   secret |-> 0, error |-> "none"]
    /\ wpc' = "done"
UpdateRejected(err) == Throw(err)

\* SecretKey and SecretKeyStore (@cloudcomponents/lambda-utils) hand
\* { maxAttempts: 5 } to their AWS SDK client: a transient error is retried
\* while fewer than maxAttempts attempts have been made
SecretClientRetries == attempts + 1 < MaxAttempts

\* new SecretKey(secretKeyString, { maxAttempts: 5 }); await secretKey.getValue()
\* The AWS SDK makes at most MaxAttempts attempts, retrying transient errors only.
GetValue ==
    /\ handler = "webhook"
    /\ wpc = "getValue"
    /\ \/ /\ value' = "sk"
          /\ wpc' = "stripe"
          /\ attempts' = 0
          /\ UNCHANGED <<wresult, rejected>>
       \/ /\ SecretClientRetries
          /\ attempts' = attempts + 1
          /\ UNCHANGED <<wpc, wresult, value, rejected>>
       \/ /\ ~SecretClientRetries
          /\ GetValueRejected
          /\ UNCHANGED <<attempts, value, rejected>>
       \/ /\ GetValueRejected
          /\ rejected' = rejected + 1
          /\ UNCHANGED <<attempts, value>>
    /\ UNCHANGED <<wevent, pre, created, data, endpoints, nextId, secretStore, calls, stored, issued, nreq>>
    /\ UNCHANGED <<handler, lvars, pvars>>

\* a transient transport error of a Stripe request: stripe-node retries it
\* up to maxNetworkRetries times, then throws
StripeTransientUnbounded ==
    /\ attempts' = attempts + 1
    /\ UNCHANGED <<wpc, wresult, rejected>>
StripeTransient ==
    \/ /\ attempts < MaxNetworkRetries
       /\ attempts' = attempts + 1
       /\ UNCHANGED <<wpc, wresult, rejected>>
    \/ /\ attempts >= MaxNetworkRetries
       /\ Throw("TransportTimeout")
       /\ UNCHANGED <<attempts, rejected>>

\* await stripe.webhookEndpoints.create({url, description, enabled_events}, {maxNetworkRetries: 5})
\* followed by the synchronous code up to the next await or the return
StripeCreate ==
    /\ handler = "webhook"
    /\ wpc = "stripe"
    /\ wevent.RequestType = "Create"
    /\ calls' = calls \cup {[op |-> "create", id |-> 0]}
    /\ \/ /\ wevent.valid
          /\ \E s \in {0, nextId} :
               LET d == [id |-> nextId, secret |-> s] IN
               /\ data' = d
               /\ created' = d
               /\ IF ShouldStore(wevent, d)
                  THEN /\ wpc' = "putSecret"
                       /\ UNCHANGED <<wresult, issued>>
                  ELSE /\ wpc' = "done"
                       /\ wresult' = ReturnData(d)
                       /\ issued' = issued \cup {d.id}
          /\ endpoints' = endpoints \cup {nextId}
          /\ nextId' = nextId + 1
          /\ attempts' = 0
          /\ UNCHANGED rejected
       \/ /\ ~wevent.valid
          /\ Throw("UpstreamRejected")
          /\ rejected' = rejected + 1
          /\ UNCHANGED <<data, created, endpoints, nextId, issued, attempts>>
       \/ /\ StripeTransient
          /\ UNCHANGED <<data, created, endpoints, nextId, issued>>
    /\ UNCHANGED <<wevent, value, pre, secretStore, stored, nreq>>
    /\ UNCHANGED <<handler, lvars, pvars>>

\* `await secretKeyStore.putSecret(data.secret)` rejects: handleCreate has no
\* try/catch and no clean-up, so the exception leaves the handler and the
\* endpoint just created stays at Stripe
PutSecretRejectedRollback ==
    /\ Throw("StoreFailed")
    /\ endpoints' = endpoints \ {data.id}
PutSecretRejected ==
    /\ Throw("StoreFailed")
    /\ UNCHANGED endpoints

\* await secretKeyStore.putSecret(data.secret); delete data.secret; return {...}
PutSecret ==
    /\ handler = "webhook"
    /\ wpc = "putSecret"
    /\ \/ /\ secretStore' = data.secret
          /\ stored' = stored + 1
          /\ data' = Redact(data)
          /\ wresult' = ReturnData(data')
          /\ issued' = issued \cup {data.id}
          /\ wpc' = "done"
          /\ UNCHANGED <<attempts, rejected, endpoints>>
       \/ /\ SecretClientRetries
          /\ attempts' = attempts + 1
          /\ UNCHANGED <<wpc, wresult, data, secretStore, stored, issued, rejected, endpoints>>
       \/ /\ ~SecretClientRetries
          /\ PutSecretRejected
          /\ UNCHANGED <<attempts, data, secretStore, stored, issued, rejected>>
       \/ /\ PutSecretRejected
          /\ rejected' = rejected + 1
          /\ UNCHANGED <<attempts, data, secretStore, stored, issued>>
    /\ UNCHANGED <<wevent, value, pre, created, nextId, calls, nreq>>
    /\ UNCHANGED <<handler, lvars, pvars>>

\* await stripe.webhookEndpoints.update(webhookId, {...}, {maxNetworkRetries: 5});
\* return { physicalResourceId: data.id, ... }
StripeUpdate ==
    /\ handler = "webhook"
    /\ wpc = "stripe"
    /\ wevent.RequestType = "Update"
    /\ LET webhookId == WebhookId(wevent) IN
       /\ calls' = calls \cup {[op |-> "update", id |-> webhookId]}
       /\ \/ /\ webhookId \in endpoints
             /\ wevent.valid
             /\ data' = [id |-> webhookId, secret |-> 0]
             /\ wresult' = ReturnData(data')
             /\ wpc' = "done"
             /\ UNCHANGED <<attempts, rejected>>
          \/ /\ webhookId \notin endpoints
             /\ UpdateRejected("UnknownResource")
             /\ rejected' = rejected + 1
             /\ UNCHANGED <<data, attempts>>
          \/ /\ webhookId \in endpoints
             /\ ~wevent.valid
             /\ UpdateRejected("UpstreamRejected")
             /\ rejected' = rejected + 1
             /\ UNCHANGED <<data, attempts>>
          \/ /\ StripeTransient
             /\ UNCHANGED data
    /\ UNCHANGED <<wevent, value, pre, created, endpoints, nextId, secretStore, stored, issued, nreq>>
    /\ UNCHANGED <<handler, lvars, pvars>>

\* await stripe.webhookEndpoints.del(webhookId, undefined, {maxNetworkRetries: 5})
StripeDelete ==
    /\ handler = "webhook"
    /\ wpc = "stripe"
    /\ wevent.RequestType = "Delete"
    /\ LET webhookId == WebhookId(wevent) IN
       /\ calls' = calls \cup {[op |-> "del", id |-> webhookId]}
       /\ \/ /\ webhookId \in endpoints
             /\ endpoints' = endpoints \ {webhookId}
             /\ wresult' = [status |-> "SUCCESS", physicalResourceId |-> 0, secret |-> 0, error |-> "none"]
             /\ wpc' = "done"
             /\ UNCHANGED <<attempts, rejected>>
          \/ /\ webhookId \notin endpoints
             /\ Throw("UnknownResource")
             /\ rejected' = rejected + 1
             /\ UNCHANGED <<endpoints, attempts>>
          \/ /\ StripeTransient
             /\ UNCHANGED endpoints
    /\ UNCHANGED <<wevent, value, pre, created, data, nextId, secretStore, stored, issued, nreq>>
    /\ UNCHANGED <<handler, lvars, pvars>>

WebhookInit ==
    /\ wpc = "idle"
    /\ wevent = NoEvent
    /\ value = "none"
    /\ pre = [endpoints |-> {}, secretStore |-> 0]
    /\ data = NoData
    /\ created = NoData
    /\ wresult = NoResult
    /\ endpoints = {}
    /\ nextId = 1
    /\ secretStore = 0
    /\ calls = {}
    /\ stored = 0
    /\ issued = {}
    /\ attempts = 0
    /\ rejected = 0
    /\ nreq = 0

\* ==========================================================================
\* with-configuration/index.ts
\* ==========================================================================

NoDetails == [responseStatus |-> "none", reason |-> "none", responseData |-> 0]

\* an exception left updateLambdaCode: its promise rejected
LambdaThrew ==
    lpc \in {"threw:noLocation", "threw:getFunction", "threw:download", "threw:updateFunctionCode"}

\* customResourceHelper dispatches Create and Update to updateLambdaCode
LambdaInvoke ==
    /\ handler = "lambda"
    /\ lpc = "idle"
    /\ \E t \in {"Create", "Update"} : levent' = t
    /\ lpc' = "getFunction"
    /\ UNCHANGED <<code, responseDetails, returned, waiter, elapsed, callbackRan, fnVersion, updateCalls>>
    /\ UNCHANGED <<handler, wvars, pvars>>

\* const { Code: code } = await lambda.send(new GetFunctionCommand(...));
\* if (!code?.Location) throw new Error(...); axios.get(code.Location, ...) is started
CodeLocationUnchecked(c) == "download"
CodeLocationChecked(c) == IF c = "location" THEN "download" ELSE "threw:noLocation"

GetFunction ==
    /\ handler = "lambda"
    /\ lpc = "getFunction"
    /\ \/ /\ code' = "location"
          /\ lpc' = CodeLocationChecked(code')
       \/ /\ code' = "noLocation"
          /\ lpc' = CodeLocationChecked(code')
       \/ /\ lpc' = "threw:getFunction"
          /\ UNCHANGED code
    /\ UNCHANGED <<levent, responseDetails, returned, waiter, elapsed, callbackRan, fnVersion, updateCalls>>
    /\ UNCHANGED <<handler, wvars, pvars>>

\* const { data } = await axios.get(...); the package is unzipped, configuration.json
\* is written, the folder is zipped again and UpdateFunctionCode is sent
Download ==
    /\ handler = "lambda"
    /\ lpc = "download"
    /\ \/ /\ lpc' = "updateFunctionCode"
          /\ updateCalls' = updateCalls + 1
       \/ /\ lpc' = "threw:download"
          /\ UNCHANGED updateCalls
    /\ UNCHANGED <<levent, code, responseDetails, returned, waiter, elapsed, callbackRan, fnVersion>>
    /\ UNCHANGED <<handler, wvars, pvars>>

\* let responseDetails = { responseStatus: 'FAILED', reason: 'Internal Error', ... }
InitialDetails == [responseStatus |-> "FAILED", reason |-> "Internal Error", responseData |-> 0]

\* await lambda.send(new UpdateFunctionCodeCommand({..., Publish: true})) resolves;
\* responseDetails is declared and waitUntilFunctionActiveV2(...) is called: it
\* returns a promise, which the code does not await
UpdateFunctionCode ==
    /\ handler = "lambda"
    /\ lpc = "updateFunctionCode"
    /\ \/ /\ fnVersion' = fnVersion + 1
          /\ responseDetails' = InitialDetails
          /\ waiter' = "RETRY"
          /\ lpc' = "waiting"
       \/ /\ lpc' = "threw:updateFunctionCode"
          /\ UNCHANGED <<fnVersion, responseDetails, waiter>>
    /\ UNCHANGED <<levent, code, returned, elapsed, callbackRan, updateCalls>>
    /\ UNCHANGED <<handler, wvars, pvars>>

\* return responseDetails: the statement after the waitUntilFunctionActiveV2(...)
\* .then(...).catch(...) expression, reached without yielding to the event loop
ReturnDetails ==
    /\ handler = "lambda"
    /\ lpc = "waiting"
    /\ returned' = responseDetails
    /\ lpc' = "returned"
    /\ UNCHANGED <<levent, code, responseDetails, waiter, elapsed, callbackRan, fnVersion, updateCalls>>
    /\ UNCHANGED <<handler, wvars, pvars>>

\* whether the event loop can run a continuation of the waiter: only once the
\* synchronous code of updateLambdaCode has run to its return
EventLoopFree == lpc = "returned"

\* One poll of waitUntilFunctionActiveV2({client, maxWaitTime: 60}, ...): the
\* function is Active (SUCCESS), Failed or unreachable (FAILURE), or still
\* Pending: the waiter then sleeps `delay` seconds, unless that would pass
\* maxWaitTime (TIMEOUT).
WaiterPoll ==
    /\ handler = "lambda"
    /\ waiter = "RETRY"
    /\ EventLoopFree
    /\ \/ /\ waiter' = "SUCCESS"
          /\ UNCHANGED elapsed
       \/ /\ waiter' = "FAILURE"
          /\ UNCHANGED elapsed
       \/ \E delay \in 1..MaxPollDelay :
            IF elapsed + delay > MaxWaitTime
            THEN /\ waiter' = "TIMEOUT"
                 /\ UNCHANGED elapsed
            ELSE /\ elapsed' = elapsed + delay
                 /\ UNCHANGED waiter
    /\ UNCHANGED <<lpc, levent, code, responseDetails, returned, callbackRan, fnVersion, updateCalls>>
    /\ UNCHANGED <<handler, wvars, pvars>>

\* .then((result) => { responseDetails = { responseStatus: 'SUCCESS', ... } })
ThenCallback ==
    /\ handler = "lambda"
    /\ waiter = "SUCCESS"
    /\ EventLoopFree
    /\ callbackRan = "none"
    /\ responseDetails' = [responseStatus |-> "SUCCESS", reason |-> "active", responseData |-> fnVersion]
    /\ callbackRan' = "then"
    /\ UNCHANGED <<lpc, levent, code, returned, waiter, elapsed, fnVersion, updateCalls>>
    /\ UNCHANGED <<handler, wvars, pvars>>

\* .catch((err) => { responseDetails = { responseStatus: 'FAILED', reason: `...${err}` } })
CatchCallback ==
    /\ handler = "lambda"
    /\ waiter \in {"TIMEOUT", "FAILURE"}
    /\ EventLoopFree
    /\ callbackRan = "none"
    /\ responseDetails' = [responseStatus |-> "FAILED", reason |-> "wait error", responseData |-> 0]
    /\ callbackRan' = "catch"
    /\ UNCHANGED <<lpc, levent, code, returned, waiter, elapsed, fnVersion, updateCalls>>
    /\ UNCHANGED <<handler, wvars, pvars>>

LambdaInit ==
    /\ lpc = "idle"
    /\ levent = "none"
    /\ code = "none"
    /\ responseDetails = NoDetails
    /\ returned = NoDetails
    /\ waiter = "idle"
    /\ elapsed = 0
    /\ callbackRan = "none"
    /\ fnVersion = 1
    /\ updateCalls = 0

\* ==========================================================================
\* stripe-event-bus-producer/index.ts
\* ==========================================================================

\* The requests API Gateway can deliver: the Stripe-Signature header may be
\* missing, the body may be missing ("none"), a present signature may or may
\* not match the body, and the body is a JSON event with a type or is not JSON
\* at all ("garbage").
ProducerEvents ==
    [signature : {"missing", "valid", "invalid"}, body : {"none", "event", "garbage"},
     type : {"charge", "invoice"}]

NoRequest == [signature |-> "missing", body |-> "none", type |-> "none"]

\* catch (error) { if (error.type === 'StripeSignatureVerificationError')
\*   return { statusCode: 400 }; return { statusCode: 500 } }
CatchAll500(errorType) == 500
Catch(errorType) == IF errorType = "StripeSignatureVerificationError" THEN 400 ELSE 500

\* an exception thrown inside the try block
Caught(errorType) ==
    /\ perror' = errorType
    /\ response' = Catch(errorType)
    /\ ppc' = "done"

ProducerInvoke ==
    /\ handler = "producer"
    /\ ppc \in {"idle", "done"}
    /\ preq < MaxRequests
    /\ \E ev \in ProducerEvents : pevent' = ev
    /\ ppc' = "apiKey"
    /\ response' = 0
    /\ perror' = "none"
    /\ verified' = FALSE
    /\ putCalls' = 0
    /\ putResult' = "none"
    /\ preq' = preq + 1
    /\ UNCHANGED bus
    /\ UNCHANGED <<handler, wvars, lvars>>

\* const apiKey = await apiSecretKey.getValue(); new Stripe(apiKey, ...);
\* if (!signature) throw new Error('Stripe signature is missing');
\* endpointSecretKey.getValue() is started
ApiKeyGetValue ==
    /\ handler = "producer"
    /\ ppc = "apiKey"
    /\ \/ /\ pevent.signature # "missing"
          /\ ppc' = "endpointSecret"
          /\ UNCHANGED <<response, perror>>
       \/ /\ pevent.signature = "missing"
          /\ Caught("Error")
       \/ Caught("SecretError")
    /\ UNCHANGED <<pevent, verified, putCalls, putResult, bus, preq>>
    /\ UNCHANGED <<handler, wvars, lvars>>

\* stripe.webhooks.constructEvent(body, signature, endpointSecret): the
\* signature is verified against the raw body, then the body is parsed
VerifiesAnything(ev) == TRUE
Verifies(ev) == ev.signature = "valid"

\* const endpointSecret = await endpointSecretKey.getValue();
\* if (!event.body) throw ...; constructEvent(...);
\* eventBridge.send(new PutEventsCommand(params)) is started
EndpointSecretGetValue ==
    /\ handler = "producer"
    /\ ppc = "endpointSecret"
    /\ \/ /\ pevent.body = "event"
          /\ Verifies(pevent)
          /\ verified' = TRUE
          /\ putCalls' = putCalls + 1
          /\ putResult' = "pending"
          /\ ppc' = "putEvents"
          /\ UNCHANGED <<response, perror>>
       \/ /\ pevent.body = "garbage"
          /\ Verifies(pevent)
          /\ Caught("SyntaxError")
          /\ UNCHANGED <<verified, putCalls, putResult>>
       \/ /\ pevent.body # "none"
          /\ ~Verifies(pevent)
          /\ Caught("StripeSignatureVerificationError")
          /\ UNCHANGED <<verified, putCalls, putResult>>
       \/ /\ pevent.body = "none"
          /\ Caught("Error")
          /\ UNCHANGED <<verified, putCalls, putResult>>
       \/ /\ Caught("SecretError")
          /\ UNCHANGED <<verified, putCalls, putResult>>
    /\ UNCHANGED <<pevent, bus, preq>>
    /\ UNCHANGED <<handler, wvars, lvars>>

\* await eventBridge.send(new PutEventsCommand(params)); return { statusCode: 200, body: 'Success' }
\* The request resolves with the entry accepted, resolves with the entry
\* reported failed (FailedEntryCount, which the handler does not read), or rejects.
PutEvents ==
    /\ handler = "producer"
    /\ ppc = "putEvents"
    /\ \/ /\ bus' = Append(bus, pevent.type)
          /\ putResult' = "accepted"
          /\ response' = 200
          /\ ppc' = "done"
          /\ UNCHANGED perror
       \/ /\ putResult' = "entryFailed"
          /\ response' = 200
          /\ ppc' = "done"
          /\ UNCHANGED <<perror, bus>>
       \/ /\ putResult' = "rejected"
          /\ Caught("EventBridgeError")
          /\ UNCHANGED bus
    /\ UNCHANGED <<pevent, verified, putCalls, preq>>
    /\ UNCHANGED <<handler, wvars, lvars>>

ProducerInit ==
    /\ ppc = "idle"
    /\ pevent = NoRequest
    /\ response = 0
    /\ perror = "none"
    /\ verified = FALSE
    /\ putCalls = 0
    /\ putResult = "none"
    /\ bus = <<>>
    /\ preq = 0

\* ==========================================================================
\* the three Lambda functions
\* ==========================================================================

Init ==
    /\ handler \in {"webhook", "lambda", "producer"}
    /\ WebhookInit
    /\ LambdaInit
    /\ ProducerInit

Next ==
    \/ WebhookInvoke
    \/ GetValue
    \/ StripeCreate
    \/ PutSecret
    \/ StripeUpdate
    \/ StripeDelete
    \/ LambdaInvoke
    \/ GetFunction
    \/ Download
    \/ UpdateFunctionCode
    \/ ReturnDetails
    \/ WaiterPoll
    \/ ThenCallback
    \/ CatchCallback
    \/ ProducerInvoke
    \/ ApiKeyGetValue
    \/ EndpointSecretGetValue
    \/ PutEvents

Spec == Init /\ [][Next]_vars

\* ==========================================================================
\* properties
\* ==========================================================================

WebhookDone(type) == handler = "webhook" /\ wpc = "done" /\ wevent.RequestType = type

\* C1: in updateLambdaCode, once UpdateFunctionCode has succeeded and the
\* wait-until-active poll has reached the active state, the result returned to
\* the framework has status SUCCESS and carries the published version in its
\* response data (FAILED is returned only for a poll that timed out or faulted).
C1_ReturnedSuccessWhenActive ==
    (lpc = "returned" /\ waiter = "SUCCESS") =>
        /\ returned.responseStatus = "SUCCESS"
        /\ returned.responseData = fnVersion

\* C2: updateLambdaCode returns only after the poll's completion callback (then
\* or catch) has run: the result is never returned while the poll outcome is
\* still pending.
C2_ReturnAfterCallback ==
    lpc = "returned" => (callbackRan # "none" /\ waiter # "RETRY")

\* C3: a successful create returns the id of the endpoint Stripe created for it;
\* every update / delete request is issued against exactly the physical id of
\* the lifecycle event, an id a prior create returned; a successful update
\* returns that same id.
C3_CallsScopedToPhysicalId ==
    handler = "webhook" =>
        /\ \A c \in calls :
             c.op \in {"update", "del"} =>
                 (c.id = wevent.PhysicalResourceId /\ c.id \in issued)
        /\ (WebhookDone("Create") /\ wresult.status = "SUCCESS") =>
               /\ wresult.physicalResourceId = created.id
               /\ created.id \in endpoints \ pre.endpoints
               /\ created.id \in issued
        /\ (WebhookDone("Update") /\ wresult.status = "SUCCESS") =>
               /\ wresult.physicalResourceId = wevent.PhysicalResourceId
               /\ wresult.physicalResourceId \in endpoints

C3_Witness ==
    /\ WebhookDone("Update")
    /\ wresult.status = "SUCCESS"
    /\ Cardinality(issued) = 2
    /\ wevent.PhysicalResourceId = 1

\* C4: a delete whose physical id is already absent at Stripe returns success
\* and leaves Stripe's state as it was (secret resolution and transport
\* permitting).
C4_DeleteAbsentSucceeds ==
    (/\ WebhookDone("Delete")
     /\ wevent.PhysicalResourceId \notin pre.endpoints
     /\ wresult.error \notin {"SecretUnavailable", "TransportTimeout"}) =>
        /\ wresult.status = "SUCCESS"
        /\ endpoints = pre.endpoints

\* C5: a successful create that configures a secret store and whose creation
\* response carried a signing secret has written that secret to the store
\* before returning, and returns a payload without the secret; no successful
\* create stores the secret and still returns it.
C5_StoredSecretNotInPayload ==
    (WebhookDone("Create") /\ wresult.status = "SUCCESS") =>
        /\ (wevent.endpointSecretStoreString /\ created.secret # 0) =>
               /\ secretStore = created.secret
               /\ stored = 1
               /\ wresult.secret = 0
        /\ stored > 0 => wresult.secret = 0

C5_Witness ==
    /\ WebhookDone("Create")
    /\ wresult.status = "SUCCESS"
    /\ wevent.endpointSecretStoreString
    /\ created.secret # 0
    /\ secretStore = created.secret

\* C6 (as claimed): every successful create, whatever its properties, returns
\* a payload without the signing secret and has persisted the secret.
C6_AlwaysRedacted ==
    (WebhookDone("Create") /\ wresult.status = "SUCCESS") =>
        /\ wresult.secret = 0
        /\ created.secret # 0 => secretStore = created.secret

\* C6 (amended): a successful create redacts the signing secret from the
\* payload and persists it exactly when the request configures a secret store;
\* without one the payload carries the secret as Stripe sent it and nothing is
\* stored.
C6_RedactedIffStoreConfigured ==
    (WebhookDone("Create") /\ wresult.status = "SUCCESS") =>
        IF wevent.endpointSecretStoreString
        THEN /\ wresult.secret = 0
             /\ created.secret # 0 => (secretStore = created.secret /\ stored = 1)
        ELSE /\ wresult.secret = created.secret
             /\ stored = 0
             /\ secretStore = pre.secretStore

C6_Witness ==
    /\ WebhookDone("Create")
    /\ wresult.status = "SUCCESS"
    /\ ~wevent.endpointSecretStoreString
    /\ created.secret # 0
    /\ wresult.secret = created.secret

\* C7: a poll that does not reach the active state within maxWaitTime ends, within
\* that budget, and the invocation's result is then a failure whose reason
\* reports the wait error.
C7_TimeoutReportedAsWaitError ==
    /\ elapsed <= MaxWaitTime
    /\ (lpc = "returned" /\ waiter = "TIMEOUT") =>
           /\ returned.responseStatus = "FAILED"
           /\ returned.reason = "wait error"

\* C8: create, update and delete resolve the secret before any Stripe request
\* or secret-store write; when secret resolution fails the invocation fails,
\* having issued no Stripe request and stored nothing, with Stripe's state and
\* the secret store unchanged.
C8_SecretResolvedFirst ==
    handler = "webhook" =>
        /\ (calls # {} \/ stored > 0 \/ endpoints # pre.endpoints) => value = "sk"
        /\ (wpc = "done" /\ value = "none") =>
               /\ wresult.status = "FAILED"
               /\ wresult.error = "SecretUnavailable"
               /\ calls = {}
               /\ stored = 0
               /\ endpoints = pre.endpoints
               /\ secretStore = pre.secretStore

C8_Witness ==
    /\ WebhookDone("Update")
    /\ wresult.error = "SecretUnavailable"
    /\ endpoints # {}
    /\ calls = {}

\* C9: the producer answers 400 exactly for a Stripe signature verification
\* error, 500 exactly for any other fault, and 200 exactly when nothing failed,
\* which requires a verified event and a completed publish; a finished request
\* has one of these three answers.
C9_ErrorsMappedToStatus ==
    handler = "producer" =>
        /\ ppc = "done" =>
               /\ response \in {200, 400, 500}
               /\ response = 400 <=> perror = "StripeSignatureVerificationError"
               /\ response = 500 <=> perror \notin {"none", "StripeSignatureVerificationError"}
               /\ response = 200 <=> perror = "none"
               /\ response = 400 => (pevent.signature = "invalid" /\ pevent.body # "none")
               /\ response = 200 =>
                      /\ verified
                      /\ pevent.signature = "valid"
                      /\ pevent.body = "event"
                      /\ putCalls = 1
                      /\ putResult \in {"accepted", "entryFailed"}
               /\ putResult = "rejected" => response = 500
        /\ ppc # "done" => response = 0

C9_Witness ==
    /\ handler = "producer"
    /\ ppc = "done"
    /\ response = 400
    /\ Len(bus) > 0

\* C10: an update whose physical id no longer exists at Stripe fails: it
\* returns no success and no physical id, issues no create and leaves the set
\* of endpoints as it was; the failure is UnknownResource unless secret
\* resolution or the transport failed first.
C10_UpdateAbsentFails ==
    (WebhookDone("Update") /\ wevent.PhysicalResourceId \notin pre.endpoints) =>
        /\ wresult.status = "FAILED"
        /\ wresult.physicalResourceId = 0
        /\ wresult.error \in {"UnknownResource", "SecretUnavailable", "TransportTimeout"}
        /\ endpoints = pre.endpoints
        /\ \A c \in calls : c.op = "update"

C10_Witness ==
    /\ WebhookDone("Update")
    /\ wevent.PhysicalResourceId \notin pre.endpoints
    /\ wresult.error = "UnknownResource"

C12_BoundedRetry ==
    handler = "webhook" =>
        /\ wpc \in {"getValue", "putSecret"} => attempts + 1 <= MaxAttempts
        /\ attempts <= MaxNetworkRetries
        /\ rejected <= 1
        /\ rejected = 1 => (wpc = "done" /\ wresult.status = "FAILED")
        /\ wresult.error = "UpstreamRejected" => (rejected = 1 /\ ~wevent.valid)
        /\ wresult.error = "TransportTimeout" =>
               /\ attempts = MaxNetworkRetries
               /\ rejected = 0
               /\ wpc = "done"
               /\ wresult.status = "FAILED"
        /\ (wpc = "done" /\ value = "none" /\ rejected = 0) =>
               (attempts + 1 = MaxAttempts /\ wresult.status = "FAILED")

C12_Witness ==
    /\ WebhookDone("Create")
    /\ wresult.error = "TransportTimeout"
    /\ attempts = MaxNetworkRetries
    /\ nreq = 2

\* C13: the producer issues PutEvents only after constructEvent verified the
\* request's signature: a request without Stripe-Signature header, without
\* body, or whose signature does not verify causes no PutEvents request; a
\* request causes at most one, and what reaches the bus is one entry whose
\* detail type is the verified event's type.
C13_PublishOnlyVerified ==
    handler = "producer" =>
        /\ putCalls <= 1
        /\ putCalls = 1 <=> putResult # "none"
        /\ putCalls = 1 =>
               /\ verified
               /\ ppc \in {"putEvents", "done"}
        /\ verified => (pevent.signature = "valid" /\ pevent.body = "event")
        /\ (pevent.signature # "valid" \/ pevent.body # "event") =>
               (putCalls = 0 /\ response # 200)
        /\ Len(bus) <= preq
        /\ putResult = "accepted" =>
               (Len(bus) > 0 /\ bus[Len(bus)] = pevent.type)

C13_Witness ==
    /\ handler = "producer"
    /\ putResult = "accepted"
    /\ Len(bus) = 2
    /\ bus[1] # bus[2]

\* C14: handleCreate creates the endpoint before it stores the signing secret
\* and never deletes it again: when storing the secret fails, the create fails
\* without a physical id while the new endpoint stays at Stripe, so a failed
\* create does not leave the external state unchanged.
C14_StoreFailureLeavesEndpoint ==
    handler = "webhook" =>
        /\ wpc = "putSecret" =>
               (stored = 0 /\ created.id \in endpoints \ pre.endpoints)
        /\ stored > 0 => created.id \in endpoints \ pre.endpoints
        /\ \A c \in calls : wevent.RequestType = "Create" => c.op = "create"
        /\ (WebhookDone("Create") /\ wresult.error = "StoreFailed") =>
               /\ wresult.status = "FAILED"
               /\ wresult.physicalResourceId = 0
               /\ created.id \in endpoints \ pre.endpoints
               /\ created.id \notin issued
               /\ stored = 0
               /\ secretStore = pre.secretStore

C14_Witness ==
    /\ WebhookDone("Create")
    /\ wresult.error = "StoreFailed"
    /\ endpoints # pre.endpoints
    /\ issued = {}

\* C15: updateLambdaCode issues UpdateFunctionCode at most once, and only after
\* GetFunction returned a code location and the package was downloaded; when
\* the location is missing, or GetFunction or the download fails, the
\* invocation throws having issued no UpdateFunctionCode and started no wait,
\* and the target function's published version is unchanged.
C15_UpdateOnlyAfterDownload ==
    handler = "lambda" =>
        /\ updateCalls <= 1
        /\ updateCalls = 1 <=>
               lpc \in {"updateFunctionCode", "waiting", "returned", "threw:updateFunctionCode"}
        /\ (updateCalls = 1 \/ lpc = "download") => code = "location"
        /\ code = "noLocation" => lpc = "threw:noLocation"
        /\ lpc \in {"threw:noLocation", "threw:getFunction", "threw:download"} =>
               /\ updateCalls = 0
               /\ waiter = "idle"
               /\ elapsed = 0
               /\ fnVersion = 1
               /\ responseDetails = NoDetails
               /\ returned = NoDetails
        /\ fnVersion # 1 => (updateCalls = 1 /\ waiter # "idle")
        /\ waiter # "idle" => fnVersion # 1

C15_Witness ==
    /\ handler = "lambda"
    /\ lpc = "threw:noLocation"
    /\ code = "noLocation"
    /\ levent = "Update"

====
